---- MODULE Spec2Model ----
(***************************************************************************)
(* The room registry of backend/room_manager.py (class RoomManager), the   *)
(* records of backend/models.py and the request handlers of                *)
(* backend/main.py that await, as a state machine.                         *)
(*                                                                         *)
(* Strings are sequences of one-character strings, so that str.upper() is  *)
(* computed and not assumed.  Optional[Room] is a sequence of length 0     *)
(* (None) or 1.  Python list index i is TLA+ index i + 1.                  *)
(***************************************************************************)
EXTENDS Integers, Sequences, FiniteSets, TLC

VARIABLES
    rooms,      \* RoomManager.rooms : Dict[str, Room]
    pc,         \* "idle", or "create_room" while create_room is in its loop
    code,       \* create_room's local `code` (<<>> when no call is running)
    host_name,  \* create_room's argument (<<>> when no call is running)
    last,       \* the last completed call: method, exit line, what it gave
    handler,    \* the start_game request of main.py that is at its await
    loading,    \* the keys of the rooms whose loading flag is set
    quiz,       \* room.quiz_data of the rooms that were given one, by key
    guessing    \* the submit_guess request of main.py that is at its await

vars == <<rooms, pc, code, host_name, last, handler, loading, quiz, guessing>>

----------------------------------------------------------------------------
(* Bounds of the exploration *)

MaxRooms == 2       \* live rooms explored at once (SpecRegistry)
MaxPlayers == 3     \* players explored in one room (Spec)
MaxAwards == 1      \* rewards explored in one room (Spec)
MaxRoundSteps == 7  \* Room.current_round is explored up to this value (Spec)
MaxQuestions == 3   \* questions of a generated quiz
MaxHints == 4       \* hints of a generated quiz
MaxMaxRounds == 3   \* Room.max_rounds tried on update_question_for_round (SpecQuestions)
MaxRound == 4       \* round_num tried on update_question_for_round

(* Program constants *)

CodeLength == 6         \* room_manager.py:12
IdLength == 8           \* room_manager.py:24
Capacity == 10          \* room_manager.py:54
Reward == 100           \* room_manager.py:101
DefaultMaxRounds == 5   \* models.py:31

----------------------------------------------------------------------------
(* Characters and strings *)

\* The part of string.ascii_uppercase + string.digits the model draws from.
GenChars == {"A", "1"}

\* What a caller can type: the generated characters and a lower-case letter.
InChars == GenChars \cup {"a"}

\* str.upper() on one character.
UpperChar(ch) == IF ch = "a" THEN "A" ELSE ch

\* str.upper()
upper(s) == [i \in DOMAIN s |-> UpperChar(s[i])]

\* The string of `length` characters ch.
Repeat(ch, length) == [i \in 1..length |-> ch]

\* RoomManager.generate_code(length): of the strings random.choices can
\* return, the model draws the ones made of a single character of GenChars.
generate_code(length) == {Repeat(ch, length) : ch \in GenChars}

\* The codes and player ids a request can carry.
InputCodes == {Repeat(ch, CodeLength) : ch \in InChars}
InputIds == generate_code(IdLength)
Names == {<<"n">>}
Guesses == {<<"g">>}

None == <<>>

----------------------------------------------------------------------------
(* models.py *)

\* Player(id=..., name=..., is_host=...) with the defaults of the class.
Player(id, name, is_host) ==
    [id |-> id, name |-> name, score |-> 0, is_host |-> is_host, connected |-> TRUE]

\* Room(code=..., host_id=..., players=[host]) with the defaults of the class.
Room(c, host_id, players) ==
    [code |-> c, host_id |-> host_id, players |-> players, status |-> "waiting",
     current_question |-> None, current_round |-> 0, max_rounds |-> DefaultMaxRounds,
     article |-> None]

----------------------------------------------------------------------------
(* Dict operations *)

\* d[k] = v
DictSet(d, k, v) == [x \in DOMAIN d \cup {k} |-> IF x = k THEN v ELSE d[x]]

\* del d[k], for k in d
DictDel(d, k) == [x \in DOMAIN d \ {k} |-> d[x]]

\* The entries of d under the keys of S: what belongs to a room goes with it.
Restrict(d, S) == [x \in DOMAIN d \cap S |-> d[x]]

\* The outcome of one call: the registry after it, what it returned or raised,
\* and the line of room_manager.py it left the method at.
Outcome(rs, out, line) == [rooms |-> rs, out |-> out, line |-> line]

----------------------------------------------------------------------------
(* RoomManager, one operator per method: registry before -> Outcome *)

\* The key get_room looks up.
LookupKey(c) == upper(c)

\* get_room(code): Optional[Room]
get_room(rs, c) ==
    IF LookupKey(c) \in DOMAIN rs THEN <<rs[LookupKey(c)]>> ELSE None

\* A create_room whose loop never finds the code taken.
CodeInUse_NeverTaken(rs, c) == FALSE

\* `while code in self.rooms` (create_room)
CodeInUse(rs, c) == c \in DOMAIN rs

\* create_room, after its loop: the host, the room, the insertion.
create_room_insert(rs, c, name, player_id) ==
    LET host == Player(player_id, name, TRUE)
        room == Room(c, player_id, <<host>>)
    IN Outcome(DictSet(rs, c, room), "RoomAndId", 39)

\* A join_room that refuses only a room in play.
JoinStatusRejects_PlayingOnly(room) == room.status = "playing"

\* `if room.status != "waiting": return None` (join_room)
JoinStatusRejects(room) == room.status # "waiting"

\* A join_room whose capacity test is off by one.
JoinFullRejects_OffByOne(room) == Len(room.players) > Capacity

\* `if len(room.players) >= 10: return None` (join_room)
JoinFullRejects(room) == Len(room.players) >= Capacity

join_room(rs, c, player_name, player_id) ==
    LET found == get_room(rs, c) IN
    IF found = None THEN Outcome(rs, "None", 49)
    ELSE LET room == found[1] IN
         IF JoinStatusRejects(room) THEN Outcome(rs, "None", 52)
         ELSE IF JoinFullRejects(room) THEN Outcome(rs, "None", 55)
         ELSE LET player == Player(player_id, player_name, FALSE)
                  room2 == [room EXCEPT !.players = Append(@, player)]
              IN Outcome([rs EXCEPT ![LookupKey(c)] = room2], "RoomAndId", 64)

\* [p for p in room.players if p.id != player_id]
Remaining(players, player_id) ==
    SelectSeq(players, LAMBDA p : p.id # player_id)

\* The key of `del self.rooms[code]` (leave_room): the argument as given.
DelKey(c) == c

\* A leave_room that hands the host role to the last player of the list.
AssignNewHost_Last(room) ==
    [room EXCEPT !.host_id = room.players[Len(room.players)].id,
                 !.players[Len(room.players)].is_host = TRUE]

\* room.host_id = room.players[0].id; room.players[0].is_host = True
AssignNewHost(room) ==
    [room EXCEPT !.host_id = room.players[1].id,
                 !.players[1].is_host = TRUE]

\* `elif player_id == room.host_id and room.players` (leave_room)
HostLeft(room, player_id) == player_id = room.host_id /\ room.players # <<>>

leave_room(rs, c, player_id) ==
    LET found == get_room(rs, c) IN
    IF found = None THEN Outcome(rs, "None", 70)
    ELSE LET room == found[1]
             room2 == [room EXCEPT !.players = Remaining(@, player_id)]
             rs2 == [rs EXCEPT ![LookupKey(c)] = room2]
         IN IF room2.players = <<>>
            THEN IF DelKey(c) \in DOMAIN rs2
                 THEN Outcome(DictDel(rs2, DelKey(c)), "None", 76)
                 ELSE Outcome(rs2, "KeyError", 76)
            ELSE IF HostLeft(room2, player_id)
                 THEN Outcome([rs2 EXCEPT ![LookupKey(c)] = AssignNewHost(room2)],
                              "None", 80)
                 ELSE Outcome(rs2, "None", 78)

\* `if not room or len(room.players) < 1: return None` (start_game), second part
StartRejects(room) == Len(room.players) < 1

start_game(rs, c) ==
    LET found == get_room(rs, c) IN
    IF found = None THEN Outcome(rs, "None", 86)
    ELSE LET room == found[1] IN
         IF StartRejects(room) THEN Outcome(rs, "None", 86)
         ELSE Outcome([rs EXCEPT ![LookupKey(c)] =
                          [room EXCEPT !.status = "playing", !.current_round = 1]],
                      "Room", 90)

\* The body of the loop of submit_guess, for one player.
Scored(player, player_id, is_correct) ==
    IF player.id = player_id /\ is_correct
    THEN [player EXCEPT !.score = @ + Reward]
    ELSE player

submit_guess(rs, c, player_id, guess, is_correct) ==
    LET found == get_room(rs, c) IN
    IF found = None THEN Outcome(rs, "None", 96)
    ELSE LET room == found[1]
             players2 == [i \in DOMAIN room.players |->
                             Scored(room.players[i], player_id, is_correct)]
         IN Outcome([rs EXCEPT ![LookupKey(c)].players = players2], "None", 98)

\* `if room.current_round > room.max_rounds` (next_round)
RoundsOver(room) == room.current_round > room.max_rounds

next_round(rs, c) ==
    LET found == get_room(rs, c) IN
    IF found = None THEN Outcome(rs, "None", 107)
    ELSE LET room == found[1]
             room2 == [room EXCEPT !.current_round = @ + 1]
             room3 == IF RoundsOver(room2)
                      THEN [room2 EXCEPT !.status = "finished"] ELSE room2
         IN Outcome([rs EXCEPT ![LookupKey(c)] = room3], "Room", 114)

\* The body of sorted(..., key=lambda p: p.score, reverse=True): a stable sort,
\* so p goes behind every player whose score is at least its own.
RECURSIVE InsertByScore_TiesReversed(_, _)
InsertByScore_TiesReversed(p, board) ==
    IF board = <<>> THEN <<p>>
    ELSE IF board[1].score > p.score
         THEN <<board[1]>> \o InsertByScore_TiesReversed(p, Tail(board))
         ELSE <<p>> \o board

RECURSIVE InsertByScore(_, _)
InsertByScore(p, board) ==
    IF board = <<>> THEN <<p>>
    ELSE IF board[1].score >= p.score
         THEN <<board[1]>> \o InsertByScore(p, Tail(board))
         ELSE <<p>> \o board

RECURSIVE sorted(_)
sorted(players) ==
    IF players = <<>> THEN <<>>
    ELSE InsertByScore(players[Len(players)], sorted(SubSeq(players, 1, Len(players) - 1)))

\* get_leaderboard(code): List[Player]
get_leaderboard(rs, c) ==
    LET found == get_room(rs, c) IN
    IF found = None THEN <<>> ELSE sorted(found[1].players)

----------------------------------------------------------------------------
(* The state machine: one action per call of a method.  The methods are    *)
(* synchronous, so a call runs from its first line to its exit with no     *)
(* other call in between; create_room, which loops, takes one step per     *)
(* generate_code().                                                        *)

\* No start_game request is at its await.
NoHandler == [pc |-> "idle", code |-> None, player_id |-> None, article |-> None]

\* No submit_guess request is at its await.
NoGuess == [pc |-> "idle", code |-> None, player_id |-> None, guess |-> None]

\* The record of a completed call.
Call(op, o) == [op |-> op, line |-> o.line, out |-> o.out]

Init ==
    /\ rooms = << >>
    /\ pc = "idle"
    /\ code = None
    /\ host_name = None
    /\ last = [op |-> "__init__", line |-> 10, out |-> "None"]
    /\ handler = NoHandler
    /\ loading = {}
    /\ quiz = << >>
    /\ guessing = NoGuess

\* create_room(host_name), line 18: the first generate_code().
CreateRoomCall(name) ==
    /\ pc = "idle"
    /\ pc' = "create_room"
    /\ host_name' = name
    /\ code' \in generate_code(CodeLength)
    /\ UNCHANGED <<rooms, last, handler, loading, quiz, guessing>>

\* create_room, lines 21-22: the code is taken, generate another.
CreateRoomRetry ==
    /\ pc = "create_room"
    /\ CodeInUse(rooms, code)
    /\ code' \in generate_code(CodeLength)
    /\ UNCHANGED <<rooms, pc, host_name, last, handler, loading, quiz, guessing>>

\* create_room, lines 24-39: the loop is left, the room is inserted.
CreateRoomInsert(player_id) ==
    /\ pc = "create_room"
    /\ ~CodeInUse(rooms, code)
    /\ LET o == create_room_insert(rooms, code, host_name, player_id) IN
        /\ rooms' = o.rooms
        /\ last' = Call("create_room", o)
    /\ pc' = "idle"
    /\ code' = None
    /\ host_name' = None
    /\ loading' = loading \ {code}
    /\ quiz' = Restrict(quiz, DOMAIN quiz \ {code})
    /\ UNCHANGED <<handler, guessing>>

JoinRoom(c, name, player_id) ==
    /\ pc = "idle"
    /\ LET o == join_room(rooms, c, name, player_id) IN
        /\ rooms' = o.rooms
        /\ last' = Call("join_room", o)
    /\ UNCHANGED <<pc, code, host_name, handler, loading, quiz, guessing>>

LeaveRoom(c, player_id) ==
    /\ pc = "idle"
    /\ LET o == leave_room(rooms, c, player_id) IN
        /\ rooms' = o.rooms
        /\ last' = Call("leave_room", o)
        /\ loading' = loading \cap DOMAIN o.rooms
        /\ quiz' = Restrict(quiz, DOMAIN o.rooms)
    /\ UNCHANGED <<pc, code, host_name, handler, guessing>>

StartGame(c) ==
    /\ pc = "idle"
    /\ LET o == start_game(rooms, c) IN
        /\ rooms' = o.rooms
        /\ last' = Call("start_game", o)
    /\ UNCHANGED <<pc, code, host_name, handler, loading, quiz, guessing>>

SubmitGuess(c, player_id, guess, is_correct) ==
    /\ pc = "idle"
    /\ LET o == submit_guess(rooms, c, player_id, guess, is_correct) IN
        /\ rooms' = o.rooms
        /\ last' = Call("submit_guess", o)
    /\ UNCHANGED <<pc, code, host_name, handler, loading, quiz, guessing>>

NextRound(c) ==
    /\ pc = "idle"
    /\ LET o == next_round(rooms, c) IN
        /\ rooms' = o.rooms
        /\ last' = Call("next_round", o)
    /\ UNCHANGED <<pc, code, host_name, handler, loading, quiz, guessing>>

\* get_leaderboard builds a new list and assigns nothing.
GetLeaderboard(c) ==
    /\ pc = "idle"
    /\ last' = [op |-> "get_leaderboard",
                line |-> IF get_room(rooms, c) = None THEN 120 ELSE 122,
                out |-> "List"]
    /\ UNCHANGED <<rooms, pc, code, host_name, handler, loading, quiz, guessing>>

----------------------------------------------------------------------------
(* The request handlers of backend/main.py.  A handler runs without        *)
(* interruption from one await to the next; the other requests run while   *)
(* it awaits.  join, leave, create and leaderboard requests only pass      *)
(* their arguments to the method (JoinRoom, LeaveRoom, ...).               *)

\* scraper.get_random_article(): an article, or None when there is none.
Articles == {[title |-> "t", url |-> "u", source |-> "s"]}
ArticleOutcomes == {None} \cup {<<a>> : a \in Articles}

\* ollama_client.generate_questions(...): the quiz the generator's JSON
\* holds (its questions and its hints, here numbered), or nothing.
Quizzes ==
    {[questions |-> [i \in 1..nq |-> i], hints |-> [i \in 1..nh |-> i]] :
        nq \in 0..MaxQuestions, nh \in 0..MaxHints}
QuizOutcomes == {None} \cup {<<q>> : q \in Quizzes}

\* The fields class Room declares.
RoomFields ==
    {"code", "host_id", "players", "status", "current_question", "current_round",
     "max_rounds", "created_at", "article"}

\* The fields of a Room that also declares the quiz_data main.py assigns.
QuizRoomFields == RoomFields \cup {"quiz_data"}

\* room_manager.set_loading(code, flag): the flag of the room the code
\* resolves to.
set_loading(ld, rs, c, flag) ==
    IF get_room(rs, c) = None THEN ld
    ELSE IF flag THEN ld \cup {LookupKey(c)} ELSE ld \ {LookupKey(c)}

\* What a step of a handler gives: registry, flags, the request at its await,
\* and the response and its line when the step ends the request.
Step(rs, ld, h, out, line) ==
    [rooms |-> rs, loading |-> ld, handler |-> h, out |-> out, line |-> line]

\* The same with the quiz data of the rooms.
StepQ(rs, ld, qz, h, out, line) ==
    [rooms |-> rs, loading |-> ld, quiz |-> qz, handler |-> h, out |-> out,
     line |-> line]

NotHost_Anyone(room, player_id) == FALSE

\* if room.host_id != player_id
NotHost(room, player_id) == room.host_id # player_id

GeneratorFailed_Never(quiz_data) == FALSE

\* if not quiz_data
GeneratorFailed(quiz_data) == quiz_data = None

Max(a, b) == IF a >= b THEN a ELSE b
Min(a, b) == IF a <= b THEN a ELSE b

\* hints_per_round = max(1, len(hints) // room.max_rounds)
hints_per_round(n_hints, max_rounds) == Max(1, n_hints \div max_rounds)

start_idx_Unscaled(round_num, per_round) == round_num - 1

\* start_idx = (round_num - 1) * hints_per_round
start_idx(round_num, per_round) == (round_num - 1) * per_round

\* end_idx = min(start_idx + hints_per_round, len(hints))
end_idx(start, per_round, n_hints) == Min(start + per_round, n_hints)

\* hints[start:end] for 0 <= start: the elements at the indexes start..end-1,
\* counted from 0.
Slice(hints, start, end) ==
    [i \in 1..(IF end > start THEN end - start ELSE 0) |-> hints[start + i]]

\* update_question_for_round(code, round_num), for round_num >= 1.  Reading
\* room.quiz_data raises when Room does not declare it.
update_question_for_round(rs, qz, c, round_num, fields) ==
    LET found == get_room(rs, c) IN
    IF found = None THEN Outcome(rs, "None", 168)
    ELSE IF "quiz_data" \notin fields THEN Outcome(rs, "AttributeError", 167)
    ELSE IF LookupKey(c) \notin DOMAIN qz THEN Outcome(rs, "None", 168)
    ELSE LET room == found[1]
             questions == qz[LookupKey(c)].questions
             hints == qz[LookupKey(c)].hints
         IN IF round_num <= Len(questions)
            THEN IF room.article = None THEN Outcome(rs, "TypeError", 187)
                 ELSE LET per_round == hints_per_round(Len(hints), room.max_rounds)
                          start == start_idx(round_num, per_round)
                          end == end_idx(start, per_round, Len(hints))
                          question == [id |-> round_num,
                                       text |-> questions[round_num],
                                       hints |-> Slice(hints, start, end)]
                          room2 == [room EXCEPT !.current_question = <<question>>,
                                                !.current_round = round_num]
                      IN Outcome([rs EXCEPT ![LookupKey(c)] = room2], "None", 192)
            ELSE Outcome(rs, "None", 173)

\* start_game(code, player_id) up to its await on generate_questions.
start_request(rs, ld, c, player_id, article) ==
    LET found == get_room(rs, c) IN
    IF found = None THEN Step(rs, ld, NoHandler, "HTTP404", 123)
    ELSE IF NotHost(found[1], player_id) THEN Step(rs, ld, NoHandler, "HTTP403", 126)
    ELSE IF article = None
         THEN Step(rs, set_loading(set_loading(ld, rs, c, TRUE), rs, c, FALSE),
                   NoHandler, "HTTP503", 135)
         ELSE Step(rs, set_loading(ld, rs, c, TRUE),
                   [pc |-> "awaiting", code |-> c, player_id |-> player_id,
                    article |-> article],
                   "await", 141)

\* start_game(code, player_id) from its await to its end.  start_game(code)
\* giving None makes line 148 raise.  When Room does not declare quiz_data
\* the assignment of line 153 raises, after status, round and article are
\* assigned.  update_question_for_round has no await of its own, so line 156
\* lets no other request in.
start_resume(rs, ld, qz, h, quiz_data, fields) ==
    IF GeneratorFailed(quiz_data)
    THEN StepQ(rs, set_loading(ld, rs, h.code, FALSE), qz, NoHandler, "HTTP503", 144)
    ELSE LET o == start_game(rs, h.code) IN
         IF o.out = "None"
         THEN StepQ(rs, set_loading(ld, rs, h.code, FALSE), qz, NoHandler,
                    "AttributeError", 148)
         ELSE LET rs2 == [o.rooms EXCEPT ![LookupKey(h.code)].article = h.article] IN
              IF "quiz_data" \notin fields
              THEN StepQ(rs2, set_loading(ld, rs2, h.code, FALSE), qz, NoHandler,
                         "ValueError", 153)
              ELSE LET qz2 == DictSet(qz, LookupKey(h.code), quiz_data[1])
                       u == update_question_for_round(rs2, qz2, h.code, 1, fields)
                   IN StepQ(u.rooms, set_loading(ld, u.rooms, h.code, FALSE), qz2,
                            NoHandler, "Room", 162)

\* submit_guess(code, request) up to its await on check_answer.  The
\* arguments of check_answer read room.quiz_data.get: they raise when Room
\* does not declare quiz_data and when the room has none.
guess_request(rs, qz, c, player_id, g, fields) ==
    LET found == get_room(rs, c) IN
    IF found = None THEN Outcome(rs, "HTTP404", 200)
    ELSE IF found[1].status # "playing" THEN Outcome(rs, "HTTP400", 203)
    ELSE IF "quiz_data" \notin fields \/ LookupKey(c) \notin DOMAIN qz
         THEN Outcome(rs, "AttributeError", 208)
         ELSE Outcome(rs, "await", 206)

\* submit_guess(code, request) from its await on: the scores are committed,
\* and result, which is None, makes result.get raise.
guess_resume(rs, gs, is_correct) ==
    LET o == submit_guess(rs, gs.code, gs.player_id, gs.guess, is_correct)
    IN Outcome(o.rooms, "AttributeError", 215)

\* next_round(code, player_id): Player has no attribute current_round, so the
\* argument of update_question_for_round raises.
next_round_request(rs, c, player_id) ==
    LET found == get_room(rs, c) IN
    IF found = None THEN Outcome(rs, "HTTP404", 244)
    ELSE IF ~ \E i \in 1..Len(found[1].players) : found[1].players[i].id = player_id
         THEN Outcome(rs, "HTTP404", 248)
         ELSE Outcome(rs, "AttributeError", 251)

StartRequest(c, player_id, article) ==
    /\ pc = "idle"
    /\ handler.pc = "idle"
    /\ LET o == start_request(rooms, loading, c, player_id, article) IN
        /\ rooms' = o.rooms
        /\ loading' = o.loading
        /\ handler' = o.handler
        /\ last' = IF o.out = "await" THEN last ELSE Call("main.start_game", o)
    /\ UNCHANGED <<pc, code, host_name, quiz, guessing>>

StartResume(quiz_data, fields) ==
    /\ pc = "idle"
    /\ handler.pc = "awaiting"
    /\ LET o == start_resume(rooms, loading, quiz, handler, quiz_data, fields) IN
        /\ rooms' = o.rooms
        /\ loading' = o.loading
        /\ quiz' = o.quiz
        /\ handler' = o.handler
        /\ last' = Call("main.start_game", o)
    /\ UNCHANGED <<pc, code, host_name, guessing>>

GuessRequest(c, player_id, g, fields) ==
    /\ pc = "idle"
    /\ guessing.pc = "idle"
    /\ LET o == guess_request(rooms, quiz, c, player_id, g, fields) IN
        /\ guessing' = IF o.out = "await"
                    THEN [pc |-> "awaiting", code |-> c, player_id |-> player_id,
                          guess |-> g]
                    ELSE guessing
        /\ last' = IF o.out = "await" THEN last ELSE Call("main.submit_guess", o)
    /\ UNCHANGED <<rooms, pc, code, host_name, handler, loading, quiz>>

GuessResume(is_correct) ==
    /\ pc = "idle"
    /\ guessing.pc = "awaiting"
    /\ LET o == guess_resume(rooms, guessing, is_correct) IN
        /\ rooms' = o.rooms
        /\ last' = Call("main.submit_guess", o)
    /\ guessing' = NoGuess
    /\ UNCHANGED <<pc, code, host_name, handler, loading, quiz>>

NextRoundRequest(c, player_id) ==
    /\ pc = "idle"
    /\ LET o == next_round_request(rooms, c, player_id) IN
        /\ rooms' = o.rooms
        /\ last' = Call("main.next_round", o)
    /\ UNCHANGED <<pc, code, host_name, handler, loading, quiz, guessing>>

\* update_question_for_round(code, round_num) applied to a room.
UpdateQuestion(c, round_num, fields) ==
    /\ pc = "idle"
    /\ LET o == update_question_for_round(rooms, quiz, c, round_num, fields) IN
        /\ rooms' = o.rooms
        /\ last' = Call("update_question_for_round", o)
    /\ UNCHANGED <<pc, code, host_name, handler, loading, quiz, guessing>>

----------------------------------------------------------------------------
(* What the bounds are measured on *)

RECURSIVE SumLen(_, _)
SumLen(rs, keys) ==
    IF keys = {} THEN 0
    ELSE LET k == CHOOSE x \in keys : TRUE
         IN Len(rs[k].players) + SumLen(rs, keys \ {k})

\* The players of all rooms together.
TotalPlayers == SumLen(rooms, DOMAIN rooms)

RECURSIVE SumScore(_)
SumScore(players) ==
    IF players = <<>> THEN 0 ELSE players[1].score + SumScore(Tail(players))

\* The room the code resolves to has fewer than `bound` players.
PlayersBelow(c, bound) ==
    \A r \in {get_room(rooms, c)} \ {None} : Len(r[1].players) < bound

\* The rewards handed out in the room the code resolves to stay within bound.
AwardsWithin(c, player_id, is_correct, bound) ==
    \A r \in {get_room(rooms, c)} \ {None} :
        is_correct =>
            SumScore(r[1].players)
              + Reward * Len(SelectSeq(r[1].players, LAMBDA p : p.id = player_id))
            <= Reward * bound

\* The round counter of the room the code resolves to is below bound.
RoundBelow(c, bound) ==
    \A r \in {get_room(rooms, c)} \ {None} : r[1].current_round < bound

----------------------------------------------------------------------------
(* Spec: the life of one room, every method that changes it.  A room is    *)
(* created when the registry is empty, so the loop of create_room does not *)
(* iterate here (SpecRegistry has several rooms).                          *)

Next ==
    \/ \E name \in Names : DOMAIN rooms = {} /\ CreateRoomCall(name)
    \/ \E player_id \in generate_code(IdLength) : CreateRoomInsert(player_id)
    \/ \E c \in InputCodes, name \in Names, player_id \in generate_code(IdLength) :
          PlayersBelow(c, MaxPlayers) /\ JoinRoom(c, name, player_id)
    \/ \E c \in InputCodes, player_id \in InputIds : LeaveRoom(c, player_id)
    \/ \E c \in InputCodes : StartGame(c)
    \/ \E c \in InputCodes, player_id \in InputIds, g \in Guesses, is_correct \in BOOLEAN :
          /\ AwardsWithin(c, player_id, is_correct, MaxAwards)
          /\ SubmitGuess(c, player_id, g, is_correct)
    \/ \E c \in InputCodes : RoundBelow(c, MaxRoundSteps) /\ NextRound(c)

Spec == Init /\ [][Next]_vars

----------------------------------------------------------------------------
(* SpecRegistry: several rooms at once, the methods that add and remove    *)
(* rooms and members.                                                      *)

NextRegistry ==
    \/ \E name \in Names :
          /\ Cardinality(DOMAIN rooms) < MaxRooms
          /\ TotalPlayers < MaxPlayers
          /\ CreateRoomCall(name)
    \/ CreateRoomRetry
    \/ \E player_id \in generate_code(IdLength) : CreateRoomInsert(player_id)
    \/ \E c \in InputCodes, name \in Names, player_id \in generate_code(IdLength) :
          TotalPlayers < MaxPlayers /\ JoinRoom(c, name, player_id)
    \/ \E c \in InputCodes, player_id \in InputIds : LeaveRoom(c, player_id)

SpecRegistry == Init /\ [][NextRegistry]_vars

----------------------------------------------------------------------------
(* SpecCapacity: one room filled up to its capacity, the methods that add  *)
(* and remove members.                                                    *)

NextCapacity ==
    \/ \E name \in Names : DOMAIN rooms = {} /\ CreateRoomCall(name)
    \/ \E player_id \in InputIds : CreateRoomInsert(player_id)
    \/ \E c \in InputCodes, name \in Names, player_id \in InputIds :
          JoinRoom(c, name, player_id)
    \/ \E c \in InputCodes, player_id \in InputIds : LeaveRoom(c, player_id)

SpecCapacity == Init /\ [][NextCapacity]_vars

----------------------------------------------------------------------------
(* SpecBoard: one room, its members, their scores and the leaderboard.     *)

NextBoard ==
    \/ \E name \in Names : DOMAIN rooms = {} /\ CreateRoomCall(name)
    \/ \E player_id \in generate_code(IdLength) : CreateRoomInsert(player_id)
    \/ \E c \in InputCodes, name \in Names, player_id \in generate_code(IdLength) :
          PlayersBelow(c, MaxPlayers) /\ JoinRoom(c, name, player_id)
    \/ \E c \in InputCodes, player_id \in InputIds, g \in Guesses, is_correct \in BOOLEAN :
          /\ AwardsWithin(c, player_id, is_correct, MaxAwards)
          /\ SubmitGuess(c, player_id, g, is_correct)
    \/ \E c \in InputCodes : GetLeaderboard(c)

SpecBoard == Init /\ [][NextBoard]_vars

----------------------------------------------------------------------------
(* SpecHandlers: one room as main.py drives it, with a start request that  *)
(* awaits while the other requests run.                                    *)

NextHandlers ==
    \/ \E name \in Names : DOMAIN rooms = {} /\ CreateRoomCall(name)
    \/ \E player_id \in generate_code(IdLength) : CreateRoomInsert(player_id)
    \/ \E c \in InputCodes, name \in Names, player_id \in generate_code(IdLength) :
          PlayersBelow(c, MaxPlayers) /\ JoinRoom(c, name, player_id)
    \/ \E c \in InputCodes, player_id \in InputIds : LeaveRoom(c, player_id)
    \/ \E c \in InputCodes, player_id \in InputIds, article \in ArticleOutcomes :
          StartRequest(c, player_id, article)
    \/ \E quiz_data \in QuizOutcomes : StartResume(quiz_data, RoomFields)
    \/ \E c \in InputCodes, player_id \in InputIds, g \in Guesses :
          GuessRequest(c, player_id, g, RoomFields)
    \/ \E c \in InputCodes, player_id \in InputIds : NextRoundRequest(c, player_id)

SpecHandlers == Init /\ [][NextHandlers]_vars

----------------------------------------------------------------------------
(* SpecExhaust: the registry with create_room called whatever the number   *)
(* of live rooms, so also when every code generate_code can give is live.  *)
(* create_room is synchronous: once called it keeps running, which is the  *)
(* weak fairness of its steps.                                             *)

\* Every code generate_code() can give is the key of a room.
Exhausted == \A c \in generate_code(CodeLength) : CodeInUse(rooms, c)

NextExhaust ==
    \/ \E name \in Names : TotalPlayers < MaxPlayers /\ CreateRoomCall(name)
    \/ CreateRoomRetry
    \/ \E player_id \in generate_code(IdLength) : CreateRoomInsert(player_id)
    \/ \E c \in InputCodes, name \in Names, player_id \in generate_code(IdLength) :
          TotalPlayers < MaxPlayers /\ JoinRoom(c, name, player_id)
    \/ \E c \in InputCodes, player_id \in InputIds : LeaveRoom(c, player_id)

SpecExhaust ==
    /\ Init
    /\ [][NextExhaust]_vars
    /\ WF_vars(CreateRoomRetry)
    /\ WF_vars(\E player_id \in generate_code(IdLength) : CreateRoomInsert(player_id))

----------------------------------------------------------------------------
(* SpecQuestions: update_question_for_round as a function of its inputs.   *)
(* The inputs are drawn at the start: a started room with an article, its  *)
(* max_rounds, and the quiz data (questions and hints) it reads; the calls *)
(* draw the code and round_num.                                            *)

InitQuestions ==
    \E c \in generate_code(CodeLength), player_id \in generate_code(IdLength),
       name \in Names, a \in Articles, q \in Quizzes, max_rounds \in 1..MaxMaxRounds :
        /\ rooms = [k \in {c} |->
                      [Room(c, player_id, <<Player(player_id, name, TRUE)>>)
                         EXCEPT !.status = "playing", !.current_round = 1,
                                !.max_rounds = max_rounds, !.article = <<a>>]]
        /\ quiz = [k \in {c} |-> q]
        /\ pc = "idle"
        /\ code = None
        /\ host_name = None
        /\ last = [op |-> "__init__", line |-> 10, out |-> "None"]
        /\ handler = NoHandler
        /\ loading = {}
        /\ guessing = NoGuess

NextQuestions ==
    \E c \in InputCodes, round_num \in 1..MaxRound :
        UpdateQuestion(c, round_num, QuizRoomFields)

SpecQuestions == InitQuestions /\ [][NextQuestions]_vars

----------------------------------------------------------------------------
(* SpecGuess: one room as main.py drives it when Room has the quiz_data    *)
(* that main.py assigns: a start request stores the quiz, and a guess      *)
(* request reaches its await on check_answer while the other requests run. *)

\* The generator's outcomes that matter to a guess: no quiz, or the largest one.
FullQuizOutcomes ==
    {None} \cup {<<q>> : q \in {z \in Quizzes : /\ Len(z.questions) = MaxQuestions
                                                /\ Len(z.hints) = MaxHints}}

NextGuess ==
    \/ \E name \in Names : DOMAIN rooms = {} /\ CreateRoomCall(name)
    \/ \E player_id \in generate_code(IdLength) : CreateRoomInsert(player_id)
    \/ \E c \in InputCodes, player_id \in InputIds : LeaveRoom(c, player_id)
    \/ \E c \in InputCodes, player_id \in InputIds, article \in ArticleOutcomes :
          StartRequest(c, player_id, article)
    \/ \E quiz_data \in FullQuizOutcomes : StartResume(quiz_data, QuizRoomFields)
    \/ \E c \in InputCodes, player_id \in InputIds, g \in Guesses :
          GuessRequest(c, player_id, g, QuizRoomFields)
    \/ \E is_correct \in BOOLEAN :
          /\ AwardsWithin(guessing.code, guessing.player_id, is_correct, MaxAwards)
          /\ GuessResume(is_correct)

SpecGuess == Init /\ [][NextGuess]_vars

----------------------------------------------------------------------------
(* Properties *)

\* The positions of the players of a list whose is_host flag is set.
Hosts(players) == {i \in DOMAIN players : players[i].is_host}

\* The player id is the id of a member of the room.
IsMember(room, player_id) == \E i \in DOMAIN room.players : room.players[i].id = player_id

\* C1: every room in the registry has at least one player, and exactly one
\* of its players has is_host set.
C1_OneHostNoEmptyRoom ==
    \A k \in DOMAIN rooms :
        /\ rooms[k].players # <<>>
        /\ Cardinality(Hosts(rooms[k].players)) = 1

\* C2: a leave_room call that removes the last player of a room, under any
\* spelling of the code that get_room resolves to it, deletes the room in that
\* call: afterwards get_room gives None for the code.
C2_LastLeaveDeletes ==
    [][\A c \in InputCodes, player_id \in InputIds :
          ( /\ LeaveRoom(c, player_id)
            /\ get_room(rooms, c) # None
            /\ get_room(rooms, c)[1].players # <<>>
            /\ Remaining(get_room(rooms, c)[1].players, player_id) = <<>> )
          => /\ LookupKey(c) \notin DOMAIN rooms'
             /\ get_room(rooms', c) = None
             /\ last'.out = "None"]_vars

\* C3: a room whose status is finished keeps that status for as long as it
\* is in the registry.
C3_FinishedIsTerminal ==
    [][\A k \in DOMAIN rooms :
          (rooms[k].status = "finished" /\ k \in DOMAIN rooms')
          => rooms'[k].status = "finished"]_vars

\* C4: in every reachable state, join_room on a room whose status is not
\* waiting returns None (line 52) and gives back the registry as it was,
\* whatever the number of players of the room.
C4_JoinNotWaitingRejected ==
    \A c \in InputCodes, name \in Names, player_id \in InputIds :
        (get_room(rooms, c) # None /\ get_room(rooms, c)[1].status # "waiting")
        => join_room(rooms, c, name, player_id) = Outcome(rooms, "None", 52)

\* C4 witness: a join has just been refused for the status, in a finished
\* room that has a player and is not full.
C4_Witness ==
    /\ last.op = "join_room"
    /\ last.line = 52
    /\ \E k \in DOMAIN rooms :
          /\ rooms[k].status = "finished"
          /\ Len(rooms[k].players) \in 1..(Capacity - 1)

\* C5: no room holds more than Capacity players, and join_room on a room
\* that holds Capacity players returns None and gives back the registry as
\* it was.
C5_CapacityRespected ==
    /\ \A k \in DOMAIN rooms : Len(rooms[k].players) <= Capacity
    /\ \A c \in InputCodes, name \in Names, player_id \in InputIds :
          (get_room(rooms, c) # None /\ Len(get_room(rooms, c)[1].players) >= Capacity)
          => /\ join_room(rooms, c, name, player_id).rooms = rooms
             /\ join_room(rooms, c, name, player_id).out = "None"

\* C5 witness: a join has just been refused by a waiting room that holds
\* Capacity players.
C5_Witness ==
    /\ last.op = "join_room"
    /\ last.line = 55
    /\ \E k \in DOMAIN rooms :
          /\ rooms[k].status = "waiting"
          /\ Len(rooms[k].players) = Capacity

\* The round counter of a player, as an Optional: models.Player declares the
\* fields id, name, score, is_host and connected.
PlayerRound(player) ==
    IF "current_round" \in DOMAIN player THEN <<player.current_round>> ELSE None

\* C6: a submit_guess call with is_correct = True for a member of the room
\* adds exactly Reward to that player's score and exactly 1 to that player's
\* round counter; no step lowers the score or the round of a player that stays.
C6_CorrectGuessAdvances ==
    [][/\ \A c \in InputCodes, player_id \in InputIds, g \in Guesses :
            ( /\ SubmitGuess(c, player_id, g, TRUE)
              /\ get_room(rooms, c) # None )
            => \A i \in DOMAIN get_room(rooms, c)[1].players :
                  LET before == get_room(rooms, c)[1].players[i]
                      after == get_room(rooms', c)[1].players[i]
                  IN before.id = player_id
                     => /\ after.score = before.score + Reward
                        /\ PlayerRound(before) # None
                        /\ PlayerRound(after) = <<PlayerRound(before)[1] + 1>>
       /\ \A k \in DOMAIN rooms \cap DOMAIN rooms' :
            Len(rooms'[k].players) = Len(rooms[k].players)
            => \A i \in DOMAIN rooms[k].players :
                  rooms'[k].players[i].score >= rooms[k].players[i].score]_vars

\* C7: create_room inserts under a code that no live room has, and changes
\* no room that was live; every key of the registry maps to a room whose
\* code is that key.
C7_CreateNeverOverwrites ==
    /\ [](\A k \in DOMAIN rooms : rooms[k].code = k)
    /\ [][(pc = "create_room" /\ pc' = "idle")
            => /\ code \notin DOMAIN rooms
               /\ DOMAIN rooms' = DOMAIN rooms \cup {code}
               /\ \A k \in DOMAIN rooms : rooms'[k] = rooms[k]]_vars

\* C7 witness: create_room has just inserted a room beside a live one.
C7_Witness ==
    /\ last.op = "create_room"
    /\ last.line = 39
    /\ pc = "idle"
    /\ Cardinality(DOMAIN rooms) >= 2

\* C8: for a live room and any spelling of its code, every method gives the
\* same result and the same registry as with the upper-case code.
C8_CaseInsensitive ==
    \A c \in InputCodes :
        get_room(rooms, c) # None =>
            /\ get_room(rooms, c) = get_room(rooms, upper(c))
            /\ get_leaderboard(rooms, c) = get_leaderboard(rooms, upper(c))
            /\ start_game(rooms, c) = start_game(rooms, upper(c))
            /\ next_round(rooms, c) = next_round(rooms, upper(c))
            /\ \A player_id \in InputIds :
                  /\ leave_room(rooms, c, player_id) = leave_room(rooms, upper(c), player_id)
                  /\ \A name \in Names :
                        join_room(rooms, c, name, player_id)
                          = join_room(rooms, upper(c), name, player_id)
                  /\ \A g \in Guesses, is_correct \in BOOLEAN :
                        submit_guess(rooms, c, player_id, g, is_correct)
                          = submit_guess(rooms, upper(c), player_id, g, is_correct)

\* C9: leave_room a second time, or for a player id that is not a member, or
\* for a code no room has, raises nothing and changes nothing.
C9_LeaveIdempotent ==
    \A c \in InputCodes, player_id \in InputIds :
        LET first == leave_room(rooms, c, player_id)
            second == leave_room(first.rooms, c, player_id)
        IN /\ second.rooms = first.rooms
           /\ second.out = "None"
           /\ ( \/ get_room(rooms, c) = None
                \/ ~IsMember(get_room(rooms, c)[1], player_id) )
              => (first.rooms = rooms /\ first.out = "None")

\* C10: in every reachable state, when leave_room is called with the host's
\* id and players remain, the remaining players keep their order, host_id is
\* the id of the first of them and that player has is_host set; when it is
\* called with another id, host_id does not change.
C10_HostPassesToEarliest ==
    \A c \in InputCodes, player_id \in InputIds :
        ( /\ get_room(rooms, c) # None
          /\ Remaining(get_room(rooms, c)[1].players, player_id) # <<>> )
        => LET before == get_room(rooms, c)[1]
               found == get_room(leave_room(rooms, c, player_id).rooms, c)
               after == found[1]
               rest == Remaining(before.players, player_id)
           IN /\ found # None
              /\ Len(after.players) = Len(rest)
              /\ \A i \in DOMAIN rest :
                    /\ after.players[i].id = rest[i].id
                    /\ after.players[i].score = rest[i].score
                    /\ after.players[i].name = rest[i].name
              /\ IF player_id = before.host_id
                 THEN /\ after.host_id = after.players[1].id
                      /\ after.players[1].is_host
                 ELSE after.host_id = before.host_id

\* C10 witness: the host has just left a room in which two players of
\* different scores remain, and the first of them is the host now.
C10_Witness ==
    /\ last.op = "leave_room"
    /\ last.line = 80
    /\ \E k \in DOMAIN rooms :
          /\ Len(rooms[k].players) >= 2
          /\ rooms[k].host_id = rooms[k].players[1].id
          /\ rooms[k].players[1].is_host
          /\ rooms[k].players[1].score # rooms[k].players[2].score

----------------------------------------------------------------------------
(* C11..C20 *)

\* The one-to-one maps of 1..n onto itself.
Perms(n) == {f \in [1..n -> 1..n] : \A i, j \in 1..n : i # j => f[i] # f[j]}

\* C11: get_leaderboard gives the empty list for a code that resolves to no
\* room and otherwise exactly the players of the room, each once, by score
\* from the highest to the lowest, players of equal score in the order in
\* which they joined; the order is fixed by the state, and the call leaves
\* the registry as it is (GetLeaderboard).
C11_LeaderboardSortedStable ==
    \A c \in InputCodes :
        LET found == get_room(rooms, c)
            board == get_leaderboard(rooms, c)
        IN IF found = None THEN board = <<>>
           ELSE LET players == found[1].players IN
                /\ Len(board) = Len(players)
                /\ \E f \in Perms(Len(players)) :
                      /\ \A i \in 1..Len(board) : board[i] = players[f[i]]
                      /\ \A i, j \in 1..Len(board) :
                            i < j => /\ board[i].score >= board[j].score
                                     /\ board[i].score = board[j].score => f[i] < f[j]

\* The leaderboard was asked of a room in which a later player outscores an
\* earlier one and two players that differ are tied.
C11_Witness ==
    /\ last.op = "get_leaderboard" /\ last.line = 122
    /\ \E k \in DOMAIN rooms :
          LET players == rooms[k].players IN
          /\ Len(players) = 3
          /\ players[1].score < players[2].score
          /\ players[1].score = players[3].score
          /\ players[1] # players[3]
          /\ get_leaderboard(rooms, k) = <<players[2], players[1], players[3]>>

\* A player is through with the game of the room: its own round counter has
\* passed max_rounds.
RoundsCompleted(room, player) ==
    PlayerRound(player) # None /\ PlayerRound(player)[1] > room.max_rounds

\* C12: the status of a room follows the progress of its players: a room is
\* finished only when every player has completed max_rounds, and playing only
\* while some player has rounds remaining.
C12_StatusMatchesProgress ==
    \A k \in DOMAIN rooms :
        LET room == rooms[k]
            done == \A i \in 1..Len(room.players) : RoundsCompleted(room, room.players[i])
        IN /\ room.status \in {"waiting", "playing", "finished"}
           /\ room.status = "finished" => done
           /\ room.status = "playing" => ~ done

\* C13: a step leaves the round counter of a room as it is or adds one to
\* it, and the counter never passes max_rounds + 1.
C13_RoundForwardByOne ==
    [][\A k \in DOMAIN rooms \cap DOMAIN rooms' :
          /\ rooms'[k].current_round \in
                {rooms[k].current_round, rooms[k].current_round + 1}
          /\ rooms'[k].current_round <= rooms'[k].max_rounds + 1]_vars

\* C14: start_game gives None and changes nothing for a code that resolves
\* to no room or to a room without players, and a room becomes playing only
\* from waiting and only with at least one player.
C14_PlayingOnlyFromWaiting ==
    /\ [](\A c \in InputCodes :
             (get_room(rooms, c) = None \/ get_room(rooms, c)[1].players = <<>>)
                => start_game(rooms, c) = Outcome(rooms, "None", 86))
    /\ [][\A k \in DOMAIN rooms' :
            (/\ rooms'[k].status = "playing"
             /\ (k \in DOMAIN rooms => rooms[k].status # "playing"))
            => /\ k \in DOMAIN rooms
               /\ rooms[k].status = "waiting"
               /\ rooms[k].players # <<>>
               /\ rooms'[k].current_round = 1]_vars

\* C15: a start request that finds no article, or whose generator gives
\* nothing, ends with 503, leaves every room as it is (status, article,
\* current question, round), leaves the loading flag of the room cleared and
\* no request pending, and the host's next start request is taken up.
C15_FailedStartCommitsNothing ==
    /\ handler.pc = "idle" =>
          \A c \in InputCodes, player_id \in InputIds :
              LET o == start_request(rooms, loading, c, player_id, None) IN
              /\ o.out \in {"HTTP404", "HTTP403", "HTTP503"}
              /\ o.rooms = rooms
              /\ o.handler = NoHandler
              /\ o.out = "HTTP503" =>
                    /\ LookupKey(c) \notin o.loading
                    /\ \A a \in Articles :
                          start_request(o.rooms, o.loading, c, player_id, <<a>>).out = "await"
    /\ handler.pc = "awaiting" =>
          LET o == start_resume(rooms, loading, quiz, handler, None, RoomFields) IN
          /\ o.out = "HTTP503"
          /\ o.rooms = rooms
          /\ o.handler = NoHandler
          /\ LookupKey(handler.code) \notin o.loading
          /\ \A a \in Articles, r \in {get_room(rooms, handler.code)} \ {None} :
                start_request(o.rooms, o.loading, handler.code, r[1].host_id, <<a>>).out
                  = "await"

\* The generator gave nothing to the start request of a waiting room: the
\* room is still waiting, without article, question or round, not loading.
C15_Witness ==
    /\ last.op = "main.start_game" /\ last.line = 144
    /\ handler = NoHandler
    /\ \E k \in DOMAIN rooms :
          /\ rooms[k].status = "waiting"
          /\ rooms[k].article = None
          /\ rooms[k].current_question = None
          /\ rooms[k].current_round = 0
          /\ k \notin loading

\* C16: a start request of an id other than host_id is refused and changes
\* nothing, and a room goes from waiting to playing only by the start
\* request of the player that is its host at that step.
C16_OnlyHostStarts ==
    /\ [](\A c \in InputCodes, player_id \in InputIds, article \in ArticleOutcomes :
             \A r \in {get_room(rooms, c)} \ {None} :
                 r[1].host_id # player_id =>
                     start_request(rooms, loading, c, player_id, article)
                       = Step(rooms, loading, NoHandler, "HTTP403", 126))
    /\ [][\A k \in DOMAIN rooms \cap DOMAIN rooms' :
            (rooms[k].status = "waiting" /\ rooms'[k].status = "playing")
            => /\ handler.pc = "awaiting"
               /\ LookupKey(handler.code) = k
               /\ handler.player_id = rooms[k].host_id]_vars

\* C19: while a start request is between its first read of the room and its
\* commit, no other request changes that room.
C19_HandlersExclusive ==
    [][(handler.pc = "awaiting" /\ handler'.pc = "awaiting")
       => get_room(rooms', handler.code) = get_room(rooms, handler.code)]_vars

\* C17: submit_guess for an id that is not a member of the room gives an
\* error result as a value and leaves the registry (scores, rounds, status)
\* as it is.
C17_UnknownPlayerIsError ==
    \A c \in InputCodes, player_id \in InputIds, g \in Guesses, is_correct \in BOOLEAN :
        \A r \in {get_room(rooms, c)} \ {None} :
            ~ IsMember(r[1], player_id) =>
                LET o == submit_guess(rooms, c, player_id, g, is_correct) IN
                /\ o.out = "Error"
                /\ o.rooms = rooms

\* C18: no two players of a room have the same id.
C18_IdsUniqueInRoom ==
    \A k \in DOMAIN rooms :
        \A i, j \in 1..Len(rooms[k].players) :
            i # j => rooms[k].players[i].id # rooms[k].players[j].id

\* C20: a create_room that is called when every code is live comes to an
\* end.
C20_CreateRoomTerminates ==
    [](pc = "create_room" /\ Exhausted => <>(pc = "idle"))

----------------------------------------------------------------------------
(* C21..C26 *)

\* C21: a join_room that succeeds appends exactly one player at the end of
\* the list, with the id drawn for it, score 0, connected, not host and
\* round 0, and leaves host_id, status, the other fields, every player that
\* was there and every other room as they were.
C21_JoinAppendsOnePlayer ==
    \A c \in InputCodes, name \in Names, player_id \in generate_code(IdLength) :
        LET o == join_room(rooms, c, name, player_id) IN
        o.line = 64 =>
            LET k == LookupKey(c)
                before == rooms[k]
                after == o.rooms[k]
                p == after.players[Len(after.players)]
            IN /\ DOMAIN o.rooms = DOMAIN rooms
               /\ \A x \in DOMAIN rooms \ {k} : o.rooms[x] = rooms[x]
               /\ after.players = Append(before.players, p)
               /\ after = [before EXCEPT !.players = after.players]
               /\ p.id = player_id /\ p.name = name
               /\ p.score = 0 /\ p.connected /\ ~ p.is_host
               /\ PlayerRound(p) = <<0>>

\* C25: in every room host_id is the id of a player of the room whose is_host
\* flag is set, and no player with another id has the flag.
C25_HostIdIsAMember ==
    \A k \in DOMAIN rooms :
        LET room == rooms[k] IN
        /\ \E i \in 1..Len(room.players) :
              room.players[i].id = room.host_id /\ room.players[i].is_host
        /\ \A i \in 1..Len(room.players) :
              room.players[i].is_host => room.players[i].id = room.host_id

\* room.quiz_data of the room under key k, None when it has none.
QuizData(k) == IF k \in DOMAIN quiz THEN <<quiz[k]>> ELSE None

\* C22: a room whose status is playing has its article and its quiz data
\* set: the start request commits the three together or none of them.
C22_PlayingHasArticleAndQuiz ==
    \A k \in DOMAIN rooms :
        rooms[k].status = "playing" =>
            /\ rooms[k].article # None
            /\ QuizData(k) # None

\* C24: a room that is playing shows one current question, the one of the
\* round of the most recent advance (the round the room was last set to).
C24_ShowsQuestionOfLatestAdvance ==
    \A k \in DOMAIN rooms :
        rooms[k].status = "playing" =>
            /\ rooms[k].current_question # None
            /\ rooms[k].current_question[1].id = rooms[k].current_round

\* The indexes, counted from 0, of the hints update_question_for_round takes
\* for round_num out of n_hints hints.
HintWindow(n_hints, max_rounds, round_num) ==
    LET per_round == hints_per_round(n_hints, max_rounds)
        start == start_idx(round_num, per_round)
    IN start .. (end_idx(start, per_round, n_hints) - 1)

\* C23: for the hints and max_rounds of a room, the hint windows of two
\* distinct rounds are disjoint and every window lies within the indexes of
\* the hints; a call for a round that has a question shows exactly the hints
\* of its window, and a call for a round_num beyond the questions changes
\* nothing.
C23_HintWindowsDisjoint ==
    \A c \in InputCodes :
        LET k == LookupKey(c) IN
        k \in DOMAIN rooms \cap DOMAIN quiz =>
            LET hints == quiz[k].hints
                n == Len(hints)
                max_rounds == rooms[k].max_rounds
            IN /\ \A r \in 1..MaxRound : HintWindow(n, max_rounds, r) \subseteq 0..(n - 1)
               /\ \A r1, r2 \in 1..MaxRound :
                     r1 # r2 => HintWindow(n, max_rounds, r1)
                                  \cap HintWindow(n, max_rounds, r2) = {}
               /\ \A r \in 1..MaxRound :
                     LET o == update_question_for_round(rooms, quiz, c, r, QuizRoomFields)
                     IN IF r > Len(quiz[k].questions)
                        THEN o.rooms = rooms
                        ELSE LET shown == o.rooms[k].current_question[1].hints IN
                             /\ {shown[i] : i \in 1..Len(shown)}
                                  = {hints[i + 1] : i \in HintWindow(n, max_rounds, r)}
                             /\ Len(shown) = Cardinality(HintWindow(n, max_rounds, r))

\* A call for a round_num beyond the questions has left a room that shows a
\* question with a window of two hints or more.
C23_Witness ==
    /\ last.op = "update_question_for_round" /\ last.line = 173
    /\ \E k \in DOMAIN rooms \cap DOMAIN quiz :
          /\ rooms[k].current_question # None
          /\ Len(rooms[k].current_question[1].hints) >= 2
          /\ hints_per_round(Len(quiz[k].hints), rooms[k].max_rounds) >= 2
          /\ Len(quiz[k].questions) >= 2

\* C26: through the guess handler a score changes only in a room whose status
\* is playing when the score is committed: when a guess request comes back
\* from its await on the grader, the players of a room that is not playing at
\* that moment (waiting or finished) are left as they were.
C26_ScoredOnlyWhilePlaying ==
    [][(guessing.pc = "awaiting" /\ guessing'.pc = "idle") =>
          \A k \in DOMAIN rooms \cap DOMAIN rooms' :
              rooms'[k].players # rooms[k].players => rooms[k].status = "playing"]_vars

============================================================================
